---- MODULE Spec2Model ----
(***************************************************************************)
(* The EasyEDA ngspice bridge of src/src/index.ts as a state machine.      *)
(*                                                                         *)
(* The extension is single-threaded JavaScript: a handler runs until its   *)
(* next await, and the continuation after the await is a later step.  One  *)
(* action below is one such synchronous segment, named after the awaited   *)
(* operation whose completion starts it.  The host (lifecycle calls, pull  *)
(* events, the extension file system, pushData), the browser (script       *)
(* elements, fetch) and the engine (factory, Module, NgSpiceWasm sessions) *)
(* are outside the repository: their answers are drawn with \E.            *)
(***************************************************************************)
EXTENDS Naturals, Sequences, FiniteSets

\* ------------------------------------------------------------------ bounds

\* listener invocations (runNgspice activations) that may be in flight at once
MaxRuns == 2
\* calls of activate the host makes
MaxActivations == 2
\* length, in characters/chunks, of a request's netlist text
MaxLen == 2
\* entries in a request's probeNodes array
MaxProbes == 2

\* ------------------------------------------------------- program constants

NGSPICE_JS == "wasm/ngspice.js"
SIMULATE_NETLIST == "SIMULATE_NETLIST"
VALIDATE_NETLIST == "VALIDATE_NETLIST"
SIMULATION_RESULT == "SIMULATION_RESULT"
ERROR_RESULT == "ERROR_RESULT"
\* the value `?? 1` substitutes for an absent ProbeType, LowLevel or HighLevel
ProbeDefault == 1

\* ------------------------------------------------------------- JS values
\* A JavaScript value: its typeof tag t, a number n, a string s.  An Error
\* object is t = "error" with its message in s; NaN is the number with
\* s = "NaN".

Val(t, n, s) == [t |-> t, n |-> n, s |-> s]
Undef == Val("undefined", 0, "")
Null == Val("null", 0, "")
Num(k) == Val("number", k, "")
NaN == Val("number", 0, "NaN")
Str(x) == Val("string", 0, x)
Bool(b) == Val("boolean", IF b THEN 1 ELSE 0, "")
Obj == Val("object", 0, "")
Err(m) == Val("error", 0, m)

\* v ?? d
Coalesce(v, d) == IF v.t \in {"undefined", "null"} THEN d ELSE v

\* the decimal numeral of a small natural number
Decimal(k) ==
  CASE k = 0 -> "0" [] k = 1 -> "1" [] k = 2 -> "2" [] k = 3 -> "3"
    [] k = 4 -> "4" [] k = 5 -> "5" [] k = 6 -> "6" [] k = 7 -> "7"
    [] k = 8 -> "8" [] k = 9 -> "9" [] OTHER -> "many"

\* String(v)
ToString(v) ==
  CASE v.t = "string" -> v.s
    [] v.t = "number" -> (IF v.s = "NaN" THEN "NaN" ELSE Decimal(v.n))
    [] v.t = "boolean" -> (IF v.n = 1 THEN "true" ELSE "false")
    [] v.t = "undefined" -> "undefined"
    [] v.t = "null" -> "null"
    [] v.t = "error" -> "Error: " \o v.s
    [] OTHER -> "[object Object]"

\* Number(v), on the strings the model uses
ToNumber(v) ==
  CASE v.t = "number" -> v
    [] v.t = "boolean" -> Num(v.n)
    [] v.t = "null" -> Num(0)
    [] v.t = "string" ->
         (CASE v.s = "" -> Num(0) [] v.s = "0" -> Num(0) [] v.s = "1" -> Num(1)
            [] v.s = "2" -> Num(2) [] v.s = "3" -> Num(3) [] OTHER -> NaN)
    [] OTHER -> NaN

\* typeof v
Typeof(v) == IF v.t = "null" THEN "object" ELSE v.t

\* !v
Falsy(v) ==
  \/ v.t \in {"undefined", "null"}
  \/ v.t = "number" /\ (v.n = 0 \/ v.s = "NaN")
  \/ v.t = "string" /\ v.s = ""
  \/ v.t = "boolean" /\ v.n = 0

\* e instanceof Error ? e.message : String(e)
ErrorMessage(e) == IF e.t = "error" THEN e.s ELSE ToString(e)

\* ------------------------------------------------------------ netlist text
\* A text is a sequence of chunks: a white-space character, or a run of
\* characters that begins and ends with a non-white-space character.

WhiteSpace == {" ", "\n"}

RECURSIVE TrimStart(_)
TrimStart(s) ==
  IF s # <<>> /\ Head(s) \in WhiteSpace THEN TrimStart(Tail(s)) ELSE s

RECURSIVE TrimEnd(_)
TrimEnd(s) ==
  IF s # <<>> /\ s[Len(s)] \in WhiteSpace
  THEN TrimEnd(SubSeq(s, 1, Len(s) - 1)) ELSE s

\* s.trim()
Trim(s) == TrimEnd(TrimStart(s))

\* lines.join(sep)
RECURSIVE Join(_, _)
Join(lines, sep) ==
  IF lines = <<>> THEN <<>>
  ELSE IF Len(lines) = 1 THEN <<Head(lines)>>
  ELSE <<Head(lines), sep>> \o Join(Tail(lines), sep)

\* readNetlist(): the built-in RC netlist
readNetlist ==
  Join(<<"* simple rc", "V1 in 0 DC 1", "R1 in out 1k", "C1 out 0 1u",
         ".tran 1u 10u", ".end">>, "\n")

\* ------------------------------------------------------- request payloads
\* props: t is "undefined", "null" or "object"; netlist is [t, text] with
\* text meaningful for t = "string"; probeNodes is [t, items] with items
\* meaningful for t = "array".  A probe entry is its own value v (Obj for
\* an object) and, for an object, its four fields (Undef when absent).

NetVal(t, text) == [t |-> t, text |-> text]
ListVal(t, items) == [t |-> t, items |-> items]
Entry(v, node, type, low, high) ==
  [v |-> v, ProbeNode |-> node, ProbeType |-> type, LowLevel |-> low,
   HighLevel |-> high]
Props(t, netlist, probeNodes) ==
  [t |-> t, netlist |-> netlist, probeNodes |-> probeNodes]

\* props?.netlist and props?.probeNodes
NetlistOf(props) ==
  IF props.t = "object" THEN props.netlist ELSE NetVal("undefined", <<>>)
ProbeNodesOf(props) ==
  IF props.t = "object" THEN props.probeNodes ELSE ListVal("undefined", <<>>)

\* typeof props?.netlist === 'string' && props.netlist.trim()
UsesRequestNetlist(props) ==
  /\ NetlistOf(props).t = "string"
  /\ Trim(NetlistOf(props).text) # <<>>

\* the request's netlist handed on trimmed
TrimmedNetlist(props) == Trim(NetlistOf(props).text)

\* the request's netlist as handed on when it is used
PassedNetlist(props) == NetlistOf(props).text

\* ------------------------------------------------------------ engine calls
\* One record per call made on the engine or the Module, in call order.

EngineCall(op) ==
  [op |-> op, text |-> <<>>, node |-> "", type |-> Undef, low |-> Undef,
   high |-> Undef, flag |-> FALSE]
LoadNetlistCall(text) == [EngineCall("loadNetlist") EXCEPT !.text = text]
AddProbeNodeCall(node, type, low, high) ==
  [EngineCall("addProbeNode") EXCEPT
     !.node = node, !.type = type, !.low = low, !.high = high]
FlagCall(op, flag) == [EngineCall(op) EXCEPT !.flag = flag]

\* Number(node.Field), the default forgotten
ProbeNumberNoDefault(field) == ToNumber(field)

\* Number(node.Field ?? 1)
ProbeNumber(field) == ToNumber(Coalesce(field, Num(ProbeDefault)))

\* the entries of the for loop that register a probe
Registers(node) ==
  /\ ~(Falsy(node.v) \/ Typeof(node.v) # "object")
  /\ node.ProbeNode.t \notin {"undefined", "null"}

\* the addProbeNode call of one registering entry
ProbeCall(node) ==
  AddProbeNodeCall(ToString(node.ProbeNode), ProbeNumber(node.ProbeType),
                   ProbeNumber(node.LowLevel), ProbeNumber(node.HighLevel))

\* the addProbeNode calls of the for loop over items, in order
RECURSIVE ProbeLoop(_)
ProbeLoop(items) ==
  IF items = <<>> THEN <<>>
  ELSE (IF Registers(Head(items)) THEN <<ProbeCall(Head(items))>> ELSE <<>>)
       \o ProbeLoop(Tail(items))

\* Array.isArray(props?.probeNodes) ? props.probeNodes : []
ProbeItems(props) ==
  IF ProbeNodesOf(props).t = "array" THEN ProbeNodesOf(props).items ELSE <<>>

\* -------------------------------------------------------------------- state

VARIABLES
  env,            \* the hosting environment and the bundled assets (fixed)
  factory,        \* typeof globalThis.Ngspice === 'function'
  activateLog,    \* the status of every activate call the host made
  registrations,  \* the addSimulationEnginePullEventListener calls made
  run             \* per slot: one invocation of the registered listener

vars == <<env, factory, activateLog, registrations, run>>

Slots == 1 .. MaxRuns

\* document: document.createElement exists; fetch: typeof fetch is
\* 'function'; decoder: atob or Buffer exists; script, main, side: the
\* bundled ngspiceScriptText, embeddedMainWasmBase64, embeddedSideWasmBase64
\* are non-empty.  The bundler inlines the three assets or none of them.
\* One environment stands for all that behave alike: fetch is consulted
\* only without a document and without a bundled script, a decoder only
\* with bundled assets.
Environments ==
  {e \in [document : BOOLEAN, fetch : BOOLEAN, decoder : BOOLEAN,
          script : BOOLEAN, main : BOOLEAN, side : BOOLEAN] :
     /\ e.script = e.main /\ e.main = e.side
     /\ (e.document \/ e.script) => e.fetch
     /\ ~e.script => e.decoder}

\* a pushData call: its event type and its data, a message text or the
\* result JSON of a session
Push(type, text, session) == [type |-> type, text |-> text, session |-> session]

NoProps == Props("undefined", NetVal("undefined", <<>>), ListVal("undefined", <<>>))

\* One invocation of the listener.  pc: where it is suspended, or how it
\* ended.  script: what loadScript did for it.  sim: the session it
\* constructed (0: none).  threw: the step of the try block that threw
\* ("" if none), error: the value thrown.
Blank ==
  [pc |-> "idle", event |-> "", props |-> NoProps, script |-> "none",
   sim |-> 0, calls |-> <<>>, pushes |-> <<>>, threw |-> "", error |-> Undef]

Settled == {"resolved", "rejected"}
Ended == Settled \cup {"ignored"}

Init ==
  /\ env \in Environments
  /\ factory = FALSE
  /\ activateLog = <<>>
  /\ registrations = <<>>
  /\ run = [r \in Slots |-> Blank]

\* ------------------------------------------------------ what the host sends

Statuses == {"onStartupFinished", "onInstalled", "undefined"}
EventTypes == {SIMULATE_NETLIST, VALIDATE_NETLIST, "SESSION_START"}

\* values an outside collaborator (host, browser, engine) throws or rejects
\* with: an Error, or a value that is not an Error
Thrown == {Err("engine failure"), Num(2)}

\* answers of eda.sys_FileSystem.getExtensionFile
HostAnswers == {"file", "missing", "rejects"}

RECURSIVE SeqsUpTo(_, _)
SeqsUpTo(S, n) ==
  IF n = 0 THEN {<<>>}
  ELSE LET shorter == SeqsUpTo(S, n - 1)
       IN shorter \cup {Append(q, x) : q \in {t \in shorter : Len(t) = n - 1}, x \in S}

NetlistChunks == {" ", "\n", "R1 1 0 1k"}
NetlistValues ==
  {NetVal(t, <<>>) : t \in {"undefined", "null", "number", "object"}}
  \cup {NetVal("string", text) : text \in SeqsUpTo(NetlistChunks, MaxLen)}

ProbeEntries ==
  { Entry(Null, Undef, Undef, Undef, Undef),
    Entry(Num(2), Undef, Undef, Undef, Undef),
    Entry(Obj, Null, Num(2), Undef, Undef),
    Entry(Obj, Str("1"), Undef, Undef, Undef),
    Entry(Obj, Num(0), Num(2), Num(0), Num(3)),
    Entry(Obj, Str("out"), Null, Str("2"), Str("x")) }
ProbeLists ==
  {ListVal(t, <<>>) : t \in {"undefined", "null", "string", "object"}}
  \cup {ListVal("array", items) : items \in SeqsUpTo(ProbeEntries, MaxProbes)}

ScenarioProps ==
  Props("object", NetVal("string", <<"R1 1 0 1k", "\n", ".end">>),
        ListVal("array", <<Entry(Obj, Str("1"), Undef, Undef, Undef)>>))

\* the payloads of overlapping requests
CorePayloads == {NoProps, ScenarioProps}

\* the payloads of requests that arrive one at a time
Payloads ==
  {NoProps, Props("null", NetVal("undefined", <<>>), ListVal("undefined", <<>>)), ScenarioProps}
  \cup {Props("object", n, ListVal("undefined", <<>>)) : n \in NetlistValues}
  \cup {Props("object", NetVal("undefined", <<>>), p) : p \in ProbeLists}

\* ------------------------------------------------------------- the bridge

\* a catch block that logs the error and reports nothing
CaughtSilently(rec, site, e, pushThrows) ==
  [rec EXCEPT !.threw = site, !.error = e, !.pc = "resolved"]

\* the catch block of runNgspice: one pushData(ERROR_RESULT, msg); when the
\* host's pushData throws there, the promise of runNgspice rejects
Caught(rec, site, e, pushThrows) ==
  [rec EXCEPT
     !.threw = site, !.error = e,
     !.pushes = Append(@, Push(ERROR_RESULT, ErrorMessage(e), 0)),
     !.pc = IF pushThrows THEN "rejected" ELSE "resolved"]

\* the ways the try block ends when `site` throws one of the values E
Throws(rec, site, E) ==
  {Caught(rec, site, e, pushThrows) : e \in E, pushThrows \in BOOLEAN}

\* resolveUrl(path): resolved against window.location.href where a window
\* (taken to come with the document) exists, else the path itself
resolveUrl(path) ==
  IF env.document THEN "https://host/extension/" \o path ELSE path

\* loadScript up to its first await: a script element is appended where a
\* document exists, else the extension's own copy of the script is asked for
loadScript(rec) ==
  IF env.document
  THEN [rec EXCEPT !.script = "element", !.pc = "script"]
  ELSE [rec EXCEPT !.script = "invoked", !.pc = "extText"]

\* ensureNgspiceLoaded without its check of the global
ensureAlwaysLoads(rec) == loadScript(rec)

\* ensureNgspiceLoaded up to its first await
ensureNgspiceLoaded(rec) ==
  IF factory THEN [rec EXCEPT !.pc = "ensured"] ELSE loadScript(rec)

\* runNgspice(props) up to its first await
runNgspice(props) ==
  ensureNgspiceLoaded([Blank EXCEPT !.event = SIMULATE_NETLIST, !.props = props])

\* getExtensionFile(path) for a path without a leading '/': the second
\* request, for '/' + path, is made when the first finds nothing
getExtensionFile(sysFs, first, second) ==
  IF ~sysFs THEN "missing"
  ELSE IF first # "missing" THEN first
  ELSE second

\* what getExtensionFile may answer
Files ==
  {getExtensionFile(sysFs, first, second) :
     sysFs \in BOOLEAN, first \in HostAnswers, second \in HostAnswers}

\* (await readExtensionBinary(path)) ?? (embedded ? base64ToBytes(embedded)
\* : undefined): "bytes", "undefined", or the step that throws
BinaryPayload(file, embedded) ==
  CASE file = "rejects" -> "readExtensionBinary"
    [] file = "file" -> "bytes"
    [] embedded /\ env.decoder -> "bytes"
    [] embedded /\ ~env.decoder -> "base64ToBytes"
    [] OTHER -> "undefined"

\* the values a failing payload step throws
PayloadErrors(payload) ==
  IF payload = "base64ToBytes" THEN {Err("No base64 decoder available")} ELSE Thrown

\* a session constructed once and shared by every call
SharedSession(r) == 1

\* the session a call of new Module.NgSpiceWasm() in slot r yields
NewSession(r) == r

\* sim.getResultJson() of a session, as pushed
getResultJson(sim) == Push(SIMULATION_RESULT, "resultJson", sim)

\* the lowest slot that holds no invocation
FreeSlot ==
  CHOOSE r \in Slots :
    run[r].pc = "idle" /\ \A q \in Slots : q < r => run[q].pc # "idle"

\* run with slot r set to rec.  The record of an invocation that has ended
\* is history: it is kept until the host lets go of it (Release), and at
\* the latest until another invocation ends.
Step(r, rec) ==
  [q \in Slots |->
     IF q = r THEN rec
     ELSE IF rec.pc \in Ended /\ run[q].pc \in Ended THEN Blank
     ELSE run[q]]

\* activate without its switch on the status
activateAlways(status) ==
  /\ activateLog' = Append(activateLog, status)
  /\ registrations' = Append(registrations, [id |-> "sim-engine-monitor", scope |-> "all"])
  /\ UNCHANGED <<env, factory, run>>

\* activate(status, arg)
activate(status) ==
  /\ activateLog' = Append(activateLog, status)
  /\ registrations' =
       IF status = "onStartupFinished"
       THEN Append(registrations, [id |-> "sim-engine-monitor", scope |-> "all"])
       ELSE registrations
  /\ UNCHANGED <<env, factory, run>>

\* the registered listener, called by the host with a pull event
Listener(eventType, props) ==
  /\ registrations # <<>>
  /\ \E r \in Slots : run[r].pc = "idle"
  /\ run' = Step(FreeSlot,
                 IF eventType = SIMULATE_NETLIST
                 THEN runNgspice(props)
                 ELSE [Blank EXCEPT !.pc = "ignored", !.event = eventType])
  /\ UNCHANGED <<env, factory, activateLog, registrations>>

\* the host lets go of an invocation that has ended
Release(r) ==
  /\ run[r].pc \in Ended
  /\ run' = [run EXCEPT ![r] = Blank]
  /\ UNCHANGED <<env, factory, activateLog, registrations>>

\* An outcome of a step of the loader is the invocation's new record and
\* whether the step defined globalThis.Ngspice.
Outcome(rec, defines) == [rec |-> rec, defines |-> defines]
Quiet(recs) == {Outcome(rec, FALSE) : rec \in recs}

Apply(r, o) ==
  /\ run' = Step(r, o.rec)
  /\ factory' = (factory \/ o.defines)
  /\ UNCHANGED <<env, activateLog, registrations>>

\* globalEval(text): the script may throw, and may or may not define Ngspice
globalEval(rec) ==
  {Outcome([rec EXCEPT !.script = "eval", !.pc = "loaded"], defines) : defines \in BOOLEAN}
  \cup Quiet(Throws([rec EXCEPT !.script = "eval"], "globalEval", Thrown))

\* the script element's load event (the browser has run the script) or its
\* error event
ScriptEvent(r) ==
  /\ run[r].pc = "script"
  /\ \E o \in {Outcome([run[r] EXCEPT !.pc = "loaded"], defines) : defines \in BOOLEAN}
              \cup Quiet(Throws(run[r], "loadScript",
                                {Err("Failed to load script: " \o resolveUrl(NGSPICE_JS))})) :
       Apply(r, o)

\* loadScript after readExtensionText(NGSPICE_JS) answered file, with an
\* empty or a non-empty text
AfterExtText(rec, file, empty) ==
  IF file = "rejects" THEN Quiet(Throws(rec, "readExtensionText", Thrown))
  ELSE IF file = "file" /\ ~empty THEN globalEval(rec)
  ELSE IF env.script THEN globalEval(rec)
  ELSE IF ~env.fetch
  THEN Quiet(Throws(rec, "loadScript", {Err("No fetch available to load ngspice.js")}))
  ELSE Quiet({[rec EXCEPT !.pc = "fetch"]})

ExtTextRead(r) ==
  /\ run[r].pc = "extText"
  /\ \E file \in Files, empty \in BOOLEAN :
       \E o \in AfterExtText(run[r], file, empty) : Apply(r, o)

\* loadScript after fetch(url)
AfterFetch(rec) ==
  Throws(rec, "fetch", Thrown)
  \cup Throws(rec, "loadScript",
              {Err("Failed to fetch script: " \o resolveUrl(NGSPICE_JS) \o " (HTTP 404)")})
  \cup {[rec EXCEPT !.pc = "respText"]}

Fetched(r) ==
  /\ run[r].pc = "fetch"
  /\ \E o \in Quiet(AfterFetch(run[r])) : Apply(r, o)

\* loadScript after resp.text()
RespText(r) ==
  /\ run[r].pc = "respText"
  /\ \E o \in Quiet(Throws(run[r], "resp.text", Thrown)) \cup globalEval(run[r]) :
       Apply(r, o)

\* ensureNgspiceLoaded without its check after loadScript
AfterLoadScriptUnchecked(rec) == {[rec EXCEPT !.pc = "ensured"]}

\* ensureNgspiceLoaded after loadScript returned
AfterLoadScript(rec) ==
  IF factory THEN {[rec EXCEPT !.pc = "ensured"]}
  ELSE Throws(rec, "ensureNgspiceLoaded", {Err("Ngspice loader not found after script load")})

Loaded(r) ==
  /\ run[r].pc = "loaded"
  /\ \E o \in Quiet(AfterLoadScript(run[r])) : Apply(r, o)

\* the calls of `planned` made when the k-th of them throws
UpTo(planned, k) == SubSeq(planned, 1, k)

\* the ways a sequence of calls ends when one of them throws
ThrowsAmong(rec, planned, points) ==
  UNION {Throws([rec EXCEPT !.calls = @ \o UpTo(planned, k)], planned[k].op, Thrown) :
           k \in points}

\* runNgspice after ensureNgspiceLoaded and readExtensionBinary(MAIN): the
\* engine factory is invoked with the main payload
AfterMainRead(rec, file) ==
  LET mainWasm == BinaryPayload(file, env.main)
  IN IF mainWasm \in {"bytes", "undefined"}
     THEN {[rec EXCEPT !.calls = Append(@, EngineCall("Ngspice")), !.pc = "factory"]}
     ELSE Throws(rec, mainWasm, PayloadErrors(mainWasm))

MainRead(r) ==
  /\ run[r].pc = "ensured"
  /\ \E file \in Files : \E o \in Quiet(AfterMainRead(run[r], file)) : Apply(r, o)

\* runNgspice after the factory's promise: the side payload is asked for
FactoryDone(r) ==
  /\ run[r].pc = "factory"
  /\ \E o \in Quiet(Throws(run[r], "Ngspice", Thrown) \cup {[run[r] EXCEPT !.pc = "side"]}) :
       Apply(r, o)

\* the Module.FS calls made for a side payload: analyzePath('/wasm'), mkdir
\* when it reports no directory, writeFile
MountCalls(exists) ==
  <<FlagCall("analyzePath", exists)>>
  \o (IF exists THEN <<>> ELSE <<EngineCall("mkdir")>>)
  \o <<EngineCall("writeFile")>>

\* whether Module.loadDynamicLibrary is called for this side payload
LoadsLibrary(sideWasm) == TRUE

\* runNgspice after readExtensionBinary(SIDE): the payload is written into
\* the Module's file system and loadDynamicLibrary is called
AfterSideRead(rec, file, exists) ==
  LET sideWasm == BinaryPayload(file, env.side)
      mount == IF sideWasm = "bytes" THEN MountCalls(exists) ELSE <<>>
      library == IF LoadsLibrary(sideWasm) THEN <<EngineCall("loadDynamicLibrary")>> ELSE <<>>
  IN IF sideWasm \notin {"bytes", "undefined"}
     THEN Throws(rec, sideWasm, PayloadErrors(sideWasm))
     ELSE ThrowsAmong(rec, mount, 2 .. Len(mount))
          \cup {[rec EXCEPT !.calls = @ \o mount \o library, !.pc = "dylib"]}

SideRead(r) ==
  /\ run[r].pc = "side"
  /\ \E file \in Files, exists \in BOOLEAN :
       \E o \in Quiet(AfterSideRead(run[r], file, exists)) : Apply(r, o)

\* the calls on the session from loadNetlist to getResultJson
SessionCalls(props, netlist) ==
  <<LoadNetlistCall(netlist)>> \o ProbeLoop(ProbeItems(props))
  \o <<EngineCall("run"), EngineCall("getResultJson")>>

\* runNgspice from sim.loadNetlist to its end: one of the session calls
\* throws, or none does and the result is pushed, which may throw too
Bridge(rec, netlist) ==
  LET planned == SessionCalls(rec.props, netlist)
      pushed == [rec EXCEPT !.calls = @ \o planned,
                            !.pushes = Append(@, getResultJson(rec.sim))]
  IN ThrowsAmong(rec, planned, 1 .. Len(planned))
     \cup Throws(pushed, "pushData", Thrown)
     \cup {[pushed EXCEPT !.pc = "resolved"]}

\* runNgspice after loadDynamicLibrary: the session is constructed and the
\* netlist chosen; the fallback is awaited, the request's own is not
AfterLibrary(r, rec) ==
  LET made == [rec EXCEPT !.calls = Append(@, EngineCall("NgSpiceWasm")),
                          !.sim = NewSession(r)]
  IN Throws(rec, "loadDynamicLibrary", Thrown)
     \cup Throws([rec EXCEPT !.calls = Append(@, EngineCall("NgSpiceWasm"))],
                 "NgSpiceWasm", Thrown)
     \cup (IF UsesRequestNetlist(rec.props)
           THEN Bridge(made, PassedNetlist(rec.props))
           ELSE {[made EXCEPT !.pc = "netlist"]})

LibraryLoaded(r) ==
  /\ run[r].pc = "dylib"
  /\ \E o \in Quiet(AfterLibrary(r, run[r])) : Apply(r, o)

\* runNgspice after readNetlist()
NetlistRead(r) ==
  /\ run[r].pc = "netlist"
  /\ \E o \in Quiet(Bridge(run[r], readNetlist)) : Apply(r, o)

\* ----------------------------------------------------------- specifications

NoneInFlight == \A r \in Slots : run[r].pc = "idle"

\* the host starts the extension
Startup == activateLog = <<>> /\ activate("onStartupFinished")

\* the host calls activate with any status
Lifecycle ==
  /\ Len(activateLog) < MaxActivations
  /\ \E status \in Statuses : activate(status)

\* a simulation request, while others may be in flight
Request == \E props \in CorePayloads : Listener(SIMULATE_NETLIST, props)

\* a simulation request, once the one before has ended
RequestAlone == NoneInFlight /\ \E props \in Payloads : Listener(SIMULATE_NETLIST, props)

\* a pull event of any type, once the invocation before has ended
PullEvent ==
  /\ NoneInFlight
  /\ \E type \in EventTypes, props \in CorePayloads : Listener(type, props)

Resume ==
  \E r \in Slots :
    \/ ScriptEvent(r)
    \/ ExtTextRead(r)
    \/ Fetched(r)
    \/ RespText(r)
    \/ Loaded(r)
    \/ MainRead(r)
    \/ FactoryDone(r)
    \/ SideRead(r)
    \/ LibraryLoaded(r)
    \/ NetlistRead(r)
    \/ Release(r)

\* overlapping requests
Next == Startup \/ Request \/ Resume
Spec == Init /\ [][Next]_vars

\* one request at a time, any payload
NextAlone == Startup \/ RequestAlone \/ Resume
SpecAlone == Init /\ [][NextAlone]_vars

\* any lifecycle status, any pull event
NextHost == Lifecycle \/ PullEvent \/ Resume
SpecHost == Init /\ [][NextHost]_vars

\* ------------------------------------------------------------------ claims

InFlight(r) == run[r].pc \notin Ended \cup {"idle"}
HasEnded(r) == run[r].pc \in Settled

IsResult(p) == p.type = SIMULATION_RESULT
IsError(p) == p.type = ERROR_RESULT
Results(r) == SelectSeq(run[r].pushes, IsResult)
Errors(r) == SelectSeq(run[r].pushes, IsError)

IsLoadNetlist(c) == c.op = "loadNetlist"
IsAddProbeNode(c) == c.op = "addProbeNode"
Loads(r) == SelectSeq(run[r].calls, IsLoadNetlist)
Probes(r) == SelectSeq(run[r].calls, IsAddProbeNode)
Called(r, op) == \E i \in 1 .. Len(run[r].calls) : run[r].calls[i].op = op

IsPrefix(s, t) == Len(s) <= Len(t) /\ s = SubSeq(t, 1, Len(s))

\* the message the catch block reports for a thrown value
MessageOf(e) ==
  IF e.t = "error" THEN e.s
  ELSE IF e.t = "number" THEN Decimal(e.n)
  ELSE "other"

\* C1, as stated: a call in which any step throws, the push of the result
\* included, makes exactly one pushData(ERROR_RESULT, ...) and no
\* pushData(SIMULATION_RESULT, ...).
C1_Original ==
  \A r \in Slots :
    (HasEnded(r) /\ run[r].threw # "") =>
      (Len(Errors(r)) = 1 /\ Len(Results(r)) = 0)

\* C1, amended: a call in which a step before the push of the result throws
\* makes exactly one pushData, of ERROR_RESULT with the thrown value's
\* message, and no SIMULATION_RESULT push; a call in which the push of the
\* result itself throws has made that one SIMULATION_RESULT call and then
\* makes exactly one ERROR_RESULT call with the message.  Nothing is pushed
\* before the call ends.  This holds while other calls are in flight.
C1_ErrorPush ==
  \A r \in Slots :
    /\ InFlight(r) => run[r].pushes = <<>>
    /\ (HasEnded(r) /\ run[r].threw # "") =>
         /\ Errors(r) = <<Push(ERROR_RESULT, MessageOf(run[r].error), 0)>>
         /\ run[r].pushes[Len(run[r].pushes)].type = ERROR_RESULT
         /\ Len(Results(r)) = (IF run[r].threw = "pushData" THEN 1 ELSE 0)

\* C1's case: a call ended by a throwing session call while another call
\* was in flight
C1_Witness ==
  \E r, q \in Slots :
    /\ r # q /\ InFlight(q)
    /\ HasEnded(r) /\ run[r].threw = "loadNetlist"
    /\ run[r].error = Num(2)

\* C2: a call in which no step throws makes exactly one
\* pushData(SIMULATION_RESULT, r), r being the result JSON of the session
\* that call constructed, and no ERROR_RESULT push; with overlapping calls
\* each pushes the result of its own session.
C2_ResultPush ==
  \A r \in Slots :
    (HasEnded(r) /\ run[r].threw = "") =>
      /\ run[r].pushes = <<Push(SIMULATION_RESULT, "resultJson", r)>>
      /\ run[r].pc = "resolved"
      /\ \A q \in Slots : (q # r /\ run[q].sim # 0) => run[q].sim # run[r].sim

\* C2's case: a call of the second slot succeeded while the first slot's
\* call, which has its own session, was suspended
C2_Witness ==
  /\ HasEnded(2) /\ run[2].threw = ""
  /\ run[1].pc = "netlist" /\ run[1].sim # 0

\* whether a text has a character that is not white space
HasInk(text) == \E i \in 1 .. Len(text) : text[i] \notin WhiteSpace

FallbackText ==
  <<"* simple rc", "\n", "V1 in 0 DC 1", "\n", "R1 in out 1k", "\n",
    "C1 out 0 1u", "\n", ".tran 1u 10u", "\n", ".end">>

ExpectedNetlist(props) ==
  IF props.t = "object" /\ props.netlist.t = "string" /\ HasInk(props.netlist.text)
  THEN props.netlist.text
  ELSE FallbackText

\* C3: the text passed to loadNetlist is the request's netlist, untrimmed,
\* when it is a string with a character that is not white space, and the
\* fixed fallback RC netlist in every other case; loadNetlist is called
\* once in a run (a run that constructed its session has called it exactly
\* once when it ends, and no run calls it twice).
C3_Netlist ==
  \A r \in Slots :
    /\ Len(Loads(r)) <= 1
    /\ (HasEnded(r) /\ run[r].sim # 0) => Len(Loads(r)) = 1
    /\ \A i \in 1 .. Len(Loads(r)) : Loads(r)[i].text = ExpectedNetlist(run[r].props)

\* C3's case: a netlist with leading white space was loaded as it came
C3_Witness ==
  \E r \in Slots :
    /\ HasEnded(r)
    /\ run[r].props.netlist = NetVal("string", <<" ", "R1 1 0 1k">>)
    /\ Loads(r) = <<LoadNetlistCall(<<" ", "R1 1 0 1k">>)>>

\* the entries that register a probe: objects with a ProbeNode that is
\* neither undefined nor null
Keeps(entry) ==
  entry.v.t = "object" /\ entry.ProbeNode.t \notin {"undefined", "null"}

KeptEntries(props) ==
  IF props.t = "object" /\ props.probeNodes.t = "array"
  THEN SelectSeq(props.probeNodes.items, Keeps)
  ELSE <<>>

\* a field as the claim has it registered: 1 when absent, else as it is
AsGiven(field) == IF field.t = "undefined" THEN Num(1) ELSE field

\* a field as the code registers it: 1 when absent or null, else Number(field)
AsNumber(field) ==
  IF field.t \in {"undefined", "null"} THEN Num(1)
  ELSE IF field.t = "number" THEN field
  ELSE IF field.t = "string" /\ field.s \in {"0", "1", "2", "3"}
  THEN Num(CHOOSE k \in 0 .. 3 : Decimal(k) = field.s)
  ELSE IF field.t = "string" /\ field.s = "" THEN Num(0)
  ELSE IF field.t = "boolean" THEN Num(field.n)
  ELSE NaN

NodeText(v) ==
  IF v.t = "string" THEN v.s
  ELSE IF v.t = "number" THEN Decimal(v.n)
  ELSE IF v.t = "boolean" THEN (IF v.n = 1 THEN "true" ELSE "false")
  ELSE "[object Object]"

ProbesAsGiven(props) ==
  [i \in 1 .. Len(KeptEntries(props)) |->
     LET e == KeptEntries(props)[i]
     IN AddProbeNodeCall(NodeText(e.ProbeNode), AsGiven(e.ProbeType),
                         AsGiven(e.LowLevel), AsGiven(e.HighLevel))]

ProbesAsNumbers(props) ==
  [i \in 1 .. Len(KeptEntries(props)) |->
     LET e == KeptEntries(props)[i]
     IN AddProbeNodeCall(NodeText(e.ProbeNode), AsNumber(e.ProbeType),
                         AsNumber(e.LowLevel), AsNumber(e.HighLevel))]

\* C4, as stated: the addProbeNode calls of a run whose loop completed are,
\* in order, the kept entries, each registered as (String(ProbeNode),
\* ProbeType, LowLevel, HighLevel) with every absent field replaced by 1.
C4_Original ==
  \A r \in Slots :
    Called(r, "run") => Probes(r) = ProbesAsGiven(run[r].props)

\* C4, amended: each kept entry is registered as (String(ProbeNode),
\* Number(ProbeType ?? 1), Number(LowLevel ?? 1), Number(HighLevel ?? 1)):
\* an absent or null field becomes 1, any other is converted to a number.
\* The calls made are a prefix of that sequence at any time and the whole
\* of it once the loop has completed; skipped entries and a probeNodes that
\* is no array register nothing and end no run.
C4_Probes ==
  \A r \in Slots :
    /\ IsPrefix(Probes(r), ProbesAsNumbers(run[r].props))
    /\ Called(r, "run") => Probes(r) = ProbesAsNumbers(run[r].props)
    /\ (HasEnded(r) /\ Called(r, "loadNetlist") /\ ~Called(r, "run")) =>
         run[r].threw \in {"loadNetlist", "addProbeNode"}

\* C4's case: of a skipped entry and an entry with a null and two string
\* fields, one probe was registered, and the run succeeded
C4_Witness ==
  \E r \in Slots :
    /\ run[r].pc = "resolved" /\ run[r].threw = ""
    /\ run[r].props.probeNodes.items =
         <<Entry(Null, Undef, Undef, Undef, Undef),
           Entry(Obj, Str("out"), Null, Str("2"), Str("x"))>>
    /\ Probes(r) = <<AddProbeNodeCall("out", Num(1), Num(2), NaN)>>

LoaderNotFound == "Ngspice loader not found after script load"

\* C5, as stated: a run that ends with the factory never having become
\* available has made exactly one pushData(ERROR_RESULT, "Ngspice loader not
\* found after script load"), in every hosting environment.
C5_Original ==
  \A r \in Slots :
    (HasEnded(r) /\ ~factory) =>
      run[r].pushes = <<Push(ERROR_RESULT, LoaderNotFound, 0)>>

\* C5, amended: a run that ends with the factory never having become
\* available has made exactly one pushData, of ERROR_RESULT; its message is
\* "Ngspice loader not found after script load" when loadScript returned
\* normally, and the message of loadScript's own failure otherwise.
C5_LoaderNotFound ==
  \A r \in Slots :
    (HasEnded(r) /\ ~factory) =>
      /\ Len(run[r].pushes) = 1
      /\ run[r].pushes[1].type = ERROR_RESULT
      /\ run[r].threw \in
           {"ensureNgspiceLoaded", "loadScript", "readExtensionText", "globalEval",
            "fetch", "resp.text"}
      /\ run[r].threw = "ensureNgspiceLoaded" <=> run[r].pushes[1].text = LoaderNotFound
      /\ run[r].threw # "ensureNgspiceLoaded" =>
           run[r].pushes[1].text = MessageOf(run[r].error)

\* C5's case: a fetched script that ran without defining Ngspice
C5_Witness ==
  \E r \in Slots :
    /\ HasEnded(r) /\ ~factory /\ run[r].script = "eval"
    /\ ~env.script
    /\ run[r].pushes = <<Push(ERROR_RESULT, LoaderNotFound, 0)>>

LoaderPcs == {"script", "extText", "fetch", "respText"}

\* C6: once globalThis.Ngspice is a function, a call of ensureNgspiceLoaded
\* returns without invoking loadScript: the call that arrives then goes on
\* to the main payload with no script element appended, no text evaluated
\* and no fetch made, then and for as long as it runs.
C6_NoReload ==
  [][\A r \in Slots :
       /\ (factory /\ run[r].pc = "idle" /\ run'[r].event = SIMULATE_NETLIST) =>
            (run'[r].pc = "ensured" /\ run'[r].script = "none")
       /\ (InFlight(r) /\ run[r].pc \notin LoaderPcs /\ run'[r].pc # "idle") =>
            run'[r].script = run[r].script
       /\ factory => factory']_vars

\* C6's case: a call that arrived with the factory present went on without
\* loadScript
C6_Witness ==
  \E r \in Slots :
    /\ factory /\ run[r].pc = "factory" /\ run[r].script = "none"

StartupCount ==
  Cardinality({i \in 1 .. Len(activateLog) : activateLog[i] = "onStartupFinished"})

\* C7: activate registers the listener, once, as 'sim-engine-monitor' with
\* scope 'all', when its status is 'onStartupFinished' and does nothing for
\* any other status; the listener starts runNgspice for SIMULATE_NETLIST
\* only, and for any other event type calls neither the engine nor
\* pushData.
C7_Adapter ==
  /\ Len(registrations) = StartupCount
  /\ \A i \in 1 .. Len(registrations) :
       registrations[i] = [id |-> "sim-engine-monitor", scope |-> "all"]
  /\ \A r \in Slots :
       /\ run[r].event \notin {"", SIMULATE_NETLIST} =>
            /\ run[r].pc = "ignored"
            /\ run[r].calls = <<>> /\ run[r].pushes = <<>>
            /\ run[r].script = "none" /\ run[r].sim = 0
       /\ run[r].pc = "ignored" => run[r].event \notin {"", SIMULATE_NETLIST}
       /\ (run[r].calls # <<>> \/ run[r].pushes # <<>> \/ run[r].script # "none") =>
            run[r].event = SIMULATE_NETLIST

\* C7's case: activate was called with another status and with
\* 'onStartupFinished', and the listener then got an event of another type
C7_Witness ==
  /\ activateLog = <<"onInstalled", "onStartupFinished">>
  /\ Len(registrations) = 1
  /\ \E r \in Slots : run[r].pc = "ignored" /\ run[r].event = VALIDATE_NETLIST

\* the Module's /wasm directory exists after the i-th call of the run
DirectoryBy(r, i) ==
  \E j \in 1 .. i :
    \/ run[r].calls[j].op = "mkdir"
    \/ run[r].calls[j].op = "analyzePath" /\ run[r].calls[j].flag

\* C8: Module.loadDynamicLibrary is called only if a side payload is
\* present, and only after /wasm exists in the Module's file system and the
\* payload has been written there; without a side payload no
\* dynamic-library load is requested.
C8_LibraryNeedsPayload ==
  \A r \in Slots :
    \A i \in 1 .. Len(run[r].calls) :
      run[r].calls[i].op = "loadDynamicLibrary" =>
        \E j \in 1 .. i :
          run[r].calls[j].op = "writeFile" /\ DirectoryBy(r, j)

\* C9: the promise runNgspice returns never rejects.
C9_NeverRejects == \A r \in Slots : run[r].pc # "rejected"

Injected(r) == run[r].script \in {"element", "eval"}

\* C10: of requests that overlap while globalThis.Ngspice is absent, at most
\* one injects or evaluates the engine script.
C10_OneInjection ==
  \A r, q \in Slots :
    (r # q /\ InFlight(r) /\ InFlight(q)) => ~(Injected(r) /\ Injected(q))

====
